---- MODULE Spec2Model ----
(***************************************************************************)
(* A model of gitfig (src/gitfig/blobconfig.py): the lockable              *)
(* configuration holder, the repository handle with its fetch cooldown     *)
(* and cleanup, the blob reader and merger, and the entry points           *)
(* get_config and check_config.                                            *)
(*                                                                         *)
(* Four specifications share the variables; each fixes the part of the     *)
(* state it does not use:                                                  *)
(*   SpecHolder  ConfigHolder objects under set/get/del/lock/unlock/copy   *)
(*   SpecRepo    one RepoObject under open, clock ticks, sync and cleanup  *)
(*   SpecMerge   BlobConfig.sync_config on a holder with any content       *)
(*   Spec        get_config and check_config from call to return           *)
(***************************************************************************)
EXTENDS Integers, Sequences, FiniteSets, TLC

(* ------------------------------ bounds -------------------------------- *)

\* ConfigHolder objects alive at once
MaxHolders == 2
\* the clock stops at MaxTime
MaxTime == 45
\* remotes configured in a repository opened in place
MaxRemotes == 2
\* statements in a configuration script
MaxStmts == 2
\* entries in the directory sync_config merges
MaxFiles == 2
\* the same, in a run of get_config
MaxLoadFiles == 1

Keys == {"x", "y"}
\* two values tell an overwritten entry from a kept one
Vals == {1, 2}
Hids == 1..MaxHolders

\* the mappings from some of the keys to values: the content of a dict
Maps == UNION {[S -> Vals] : S \in SUBSET Keys}
EmptyMap == [k \in {} |-> 1]

Put(m, k, v) == [j \in (DOMAIN m) \cup {k} |-> IF j = k THEN v ELSE m[j]]
Remove(m, k) == [j \in (DOMAIN m) \ {k} |-> m[j]]
\* dict.update(other): every key of other is stored, the rest is kept
Update(m, other) ==
    [j \in (DOMAIN m) \cup (DOMAIN other) |-> IF j \in DOMAIN other THEN other[j] ELSE m[j]]

VARIABLES
    holders,    \* the ConfigHolder objects: id -> [used, entries, locked, name]
    err,        \* the exception the last operation raised, "none" when it returned
    ret,        \* what the last operation returned (0: None)
    op,         \* the name of the last operation called
    now,        \* the wall clock, in seconds
    fs,         \* the directories that exist on disk (paths)
    repo,       \* the RepoObject: [open, dir, cloned, last_fetch, remotes]
    sync,       \* each caller of sync(): [pc, seen], seen = remotes fetched so far
    fetches,    \* the number of remote.fetch() calls made
    fetchlog,   \* the times at which a sync() passed the cooldown check
    call,       \* the entry point running: [fn, pc, target, todo, cleanup]
    args,       \* the overrides get_config was given: [initdict, kwargs]
    base,       \* the entries of the holder when sync_config was called
    log,        \* the files handed to mergeblob, in order: [stores, failed]
    warnings    \* the number of warnings issued

holderVars == <<holders>>
repoVars == <<now, fs, repo, sync, fetches, fetchlog>>
loadVars == <<call, args, base, log, warnings>>
vars == <<holders, err, ret, op, now, fs, repo, sync, fetches, fetchlog,
          call, args, base, log, warnings>>

(* --------------------------- ConfigHolder ------------------------------ *)

NoHolder == [used |-> FALSE, entries |-> EmptyMap, locked |-> 0, name |-> ""]

\* ConfigHolder.__init__(init, name): the entries are copied from init, the
\* lock is off, the name defaults to the lower-cased class name
ConfigHolder(init, name) ==
    [used |-> TRUE, entries |-> init, locked |-> 0,
     name |-> IF name = "" THEN "configholder" ELSE name]

\* __setitem__ without the lock check
SetItemNoLockCheck(h, k, v) ==
    [h |-> [h EXCEPT !.entries = Put(@, k, v)], err |-> "none"]

\* ConfigHolder.__setitem__ (also __setattr__)
SetItem(h, k, v) ==
    IF h.locked # 0 /\ k \notin DOMAIN h.entries
    THEN [h |-> h, err |-> "ConfigLockError"]
    ELSE [h |-> [h EXCEPT !.entries = Put(@, k, v)], err |-> "none"]

\* ConfigHolder.__getitem__ (also __getattr__)
GetItem(h, k) ==
    IF k \in DOMAIN h.entries
    THEN [val |-> h.entries[k], err |-> "none"]
    ELSE [val |-> 0, err |-> "KeyError"]

\* __delitem__ with the lock check of __setitem__
DelItemLockChecked(h, k) ==
    IF h.locked # 0
    THEN [h |-> h, err |-> "ConfigLockError"]
    ELSE IF k \in DOMAIN h.entries
    THEN [h |-> [h EXCEPT !.entries = Remove(@, k)], err |-> "none"]
    ELSE [h |-> h, err |-> "KeyError"]

\* ConfigHolder.__delitem__
DelItem(h, k) ==
    IF k \in DOMAIN h.entries
    THEN [h |-> [h EXCEPT !.entries = Remove(@, k)], err |-> "none"]
    ELSE [h |-> h, err |-> "KeyError"]

\* lock() that leaves the flag alone
LockNothing(h) == h

\* ConfigHolder.lock, unlock, islocked
LockHolder(h) == [h EXCEPT !.locked = 1]
UnlockHolder(h) == [h EXCEPT !.locked = 0]
IsLocked(h) == h.locked

\* copy() that forgets the lock state
CopyUnlocked(h) == ConfigHolder(h.entries, "")

\* ConfigHolder.copy: the object copy() constructs and returns
CopyHolder(h) ==
    LET ch == ConfigHolder(h.entries, "")
    IN IF IsLocked(h) # 0 THEN LockHolder(ch) ELSE ch

FreeIds == {i \in Hids : ~holders[i].used}

(* ---------------------------- RepoObject -------------------------------- *)

\* timedelta(seconds=20) in RepoObject.sync
Cooldown == 20

\* paths are sequences of characters, so that str.startswith is a prefix test
IsPrefix(p, s) == Len(p) <= Len(s) /\ SubSeq(s, 1, Len(p)) = p

\* tempfile.gettempdir(): "/t"
TempDir == <<"/", "t">>
\* the local git repositories a caller can name: "/h" outside the temporary
\* root, "/t/r" under it, "/tr" beside it
LocalRepos == {<<"/", "h">>, <<"/", "t", "/", "r">>, <<"/", "t", "r">>}
\* a location that is no local path and can be cloned
RemoteUrl == <<"u">>
RepoPaths == LocalRepos \cup {RemoteUrl}
\* the directory tempfile.mkdtemp() makes: "/t/m"
TmpDirs == {TempDir \o <<"/", "m">>}

NoPath == <<>>
NoRepo == [open |-> FALSE, dir |-> NoPath, cloned |-> FALSE, last_fetch |-> 0, remotes |-> 0]
Idle == [pc |-> "idle", seen |-> 0]

\* the cooldown check without the cooldown
GateAlways(t, last) == t >= last

\* RepoObject.sync: datetime.now() >= self._last_fetch + timedelta(seconds=20)
Gate(t, last) == t >= last + Cooldown


\* RepoObject.cleanup: the test that lets shutil.rmtree run
Removes(dir) == IsPrefix(TempDir, dir)

\* RepoObject.__init__(repo_path) at time t with the directories files on
\* disk. An existing local repository is opened in place; anything else is
\* cloned into the new temporary directory d, and a failing clone raises with
\* the directory left behind. rs is the number of remotes of the repository
\* opened in place; a clone has one, its origin.
RepoObjectInit(p, rs, d, files, t) ==
    IF p \in LocalRepos /\ p \in files
    THEN [repo |-> [open |-> TRUE, dir |-> p, cloned |-> FALSE,
                    last_fetch |-> t, remotes |-> rs],
          fs |-> files, err |-> "none"]
    ELSE IF p = RemoteUrl
    THEN [repo |-> [open |-> TRUE, dir |-> d, cloned |-> TRUE,
                    last_fetch |-> t, remotes |-> 1],
          fs |-> files \cup {d}, err |-> "none"]
    ELSE [repo |-> NoRepo, fs |-> files \cup {d}, err |-> "GitCommandError"]

\* RepoObject.cleanup on the handle r: a directory that passes the test is
\* removed with all under it; shutil.rmtree raises when it is already gone
RepoCleanup(r, files) ==
    IF ~Removes(r.dir)
    THEN [fs |-> files, err |-> "none"]
    ELSE IF r.dir \in files
    THEN [fs |-> {f \in files : ~IsPrefix(r.dir, f)}, err |-> "none"]
    ELSE [fs |-> files, err |-> "OSError"]

\* a RepoObject is constructed
Open(p, rs, d) ==
    /\ ~repo.open
    /\ d \notin fs
    /\ op' = "open"
    /\ LET r == RepoObjectInit(p, rs, d, fs, now)
       IN /\ repo' = r.repo
          /\ fs' = r.fs
          /\ err' = r.err
    /\ ret' = 0
    /\ UNCHANGED <<holderVars, loadVars, now, sync, fetches, fetchlog>>

\* the clock advances (time is counted from the construction of the handle)
Tick(d) ==
    /\ repo.open
    /\ now + d <= MaxTime
    /\ now' = now + d
    /\ UNCHANGED <<holderVars, loadVars, err, ret, op, fs, repo, sync, fetches, fetchlog>>

\* sync() that resets the timestamp in the same step as the check, before
\* it fetches
SyncCheckStamping(c) ==
    /\ repo.open
    /\ sync[c].pc = "idle"
    /\ op' = "sync"
    /\ err' = "none"
    /\ ret' = 0
    /\ IF Gate(now, repo.last_fetch)
       THEN /\ sync' = [sync EXCEPT ![c] = [pc |-> "fetching", seen |-> 0]]
            /\ fetchlog' = Append(fetchlog, now)
            /\ repo' = [repo EXCEPT !.last_fetch = now]
       ELSE /\ sync' = sync
            /\ fetchlog' = fetchlog
            /\ repo' = repo
    /\ UNCHANGED <<holderVars, loadVars, now, fs, fetches>>

\* sync() is called by c: the cooldown check. Inside the window the call
\* returns at once; past it the caller goes on to fetch the remotes.
SyncCheck(c) ==
    /\ repo.open
    /\ sync[c].pc = "idle"
    /\ op' = "sync"
    /\ err' = "none"
    /\ ret' = 0
    /\ IF Gate(now, repo.last_fetch)
       THEN /\ sync' = [sync EXCEPT ![c] = [pc |-> "fetching", seen |-> 0]]
            /\ fetchlog' = Append(fetchlog, now)
       ELSE /\ sync' = sync
            /\ fetchlog' = fetchlog
    /\ UNCHANGED <<holderVars, loadVars, now, fs, repo, fetches>>

\* one turn of the loop over self._repo.remotes: remote.fetch()
SyncFetch(c) ==
    /\ sync[c].pc = "fetching"
    /\ sync[c].seen < repo.remotes
    /\ sync' = [sync EXCEPT ![c].seen = @ + 1]
    /\ fetches' = fetches + 1
    /\ UNCHANGED <<holderVars, loadVars, err, ret, op, now, fs, repo, fetchlog>>

\* the loop is over: self._last_fetch = datetime.now(), and sync() returns
SyncDone(c) ==
    /\ sync[c].pc = "fetching"
    /\ sync[c].seen = repo.remotes
    /\ sync' = [sync EXCEPT ![c] = Idle]
    /\ repo' = [repo EXCEPT !.last_fetch = now]
    /\ UNCHANGED <<holderVars, loadVars, err, ret, op, now, fs, fetches, fetchlog>>

\* cleanup() is called
Cleanup ==
    /\ repo.open
    /\ \A c \in DOMAIN sync : sync[c].pc = "idle"
    /\ op' = "cleanup"
    /\ ret' = 0
    /\ LET r == RepoCleanup(repo, fs)
       IN /\ fs' = r.fs
          /\ err' = r.err
    /\ UNCHANGED <<holderVars, loadVars, now, repo, sync, fetches, fetchlog>>

NoCall == [fn |-> "none", pc |-> "off", target |-> "none", todo |-> 0, cleanup |-> FALSE]
NoArgs == [repo_path |-> NoPath, env |-> NoPath, initdict |-> EmptyMap, kwargs |-> EmptyMap]

LoadUnused ==
    /\ call = NoCall
    /\ args = NoArgs
    /\ base = EmptyMap
    /\ log = <<>>
    /\ warnings = 0

RepoUnused ==
    /\ now = 0
    /\ fs = LocalRepos
    /\ repo = NoRepo
    /\ sync = [c \in {1} |-> Idle]
    /\ fetches = 0
    /\ fetchlog = <<>>

InitRepo ==
    /\ holders = [i \in Hids |-> NoHolder]
    /\ err = "none"
    /\ ret = 0
    /\ op = "init"
    /\ RepoUnused
    /\ LoadUnused

NextRepo ==
    \/ \E p \in RepoPaths, rs \in 0..MaxRemotes, d \in TmpDirs \ fs : Open(p, rs, d)
    \/ \E d \in 1..Cooldown : Tick(d)
    \/ \E c \in DOMAIN sync : SyncCheck(c)
    \/ \E c \in DOMAIN sync : SyncFetch(c)
    \/ \E c \in DOMAIN sync : SyncDone(c)
    \/ Cleanup

SpecRepo == InitRepo /\ [][NextRepo]_vars

(* ----------------------- properties of the handle ---------------------- *)

\* C2: once cleanup() has returned, the directory of a handle opened in place
\* on an existing local repository still exists, wherever it lies, and the
\* temporary directory of a handle made by cloning is gone.
CleanupSparesCallerDir ==
    (op = "cleanup" /\ err = "none" /\ repo.open) =>
        IF repo.cloned THEN repo.dir \notin fs ELSE repo.dir \in fs

Set(i, k, v) ==
    /\ op' = "set"
    /\ holders[i].used
    /\ LET r == SetItem(holders[i], k, v)
       IN /\ holders' = [holders EXCEPT ![i] = r.h]
          /\ err' = r.err
    /\ ret' = 0
    /\ UNCHANGED <<repoVars, loadVars>>

Get(i, k) ==
    /\ op' = "get"
    /\ holders[i].used
    /\ LET r == GetItem(holders[i], k)
       IN /\ err' = r.err
          /\ ret' = r.val
    /\ UNCHANGED holders
    /\ UNCHANGED <<repoVars, loadVars>>

Del(i, k) ==
    /\ op' = "del"
    /\ holders[i].used
    /\ LET r == DelItem(holders[i], k)
       IN /\ holders' = [holders EXCEPT ![i] = r.h]
          /\ err' = r.err
    /\ ret' = 0
    /\ UNCHANGED <<repoVars, loadVars>>

Lock(i) ==
    /\ op' = "lock"
    /\ holders[i].used
    /\ holders' = [holders EXCEPT ![i] = LockHolder(@)]
    /\ err' = "none"
    /\ ret' = 0
    /\ UNCHANGED <<repoVars, loadVars>>

Unlock(i) ==
    /\ op' = "unlock"
    /\ holders[i].used
    /\ holders' = [holders EXCEPT ![i] = UnlockHolder(@)]
    /\ err' = "none"
    /\ ret' = 0
    /\ UNCHANGED <<repoVars, loadVars>>

\* copy(): the new object takes a free id, which is what the call returns
Copy(i) ==
    /\ op' = "copy"
    /\ holders[i].used
    /\ FreeIds # {}
    /\ LET c == CHOOSE j \in FreeIds : \A l \in FreeIds : j <= l
       IN /\ holders' = [holders EXCEPT ![c] = CopyHolder(holders[i])]
          /\ ret' = c
    /\ err' = "none"
    /\ UNCHANGED <<repoVars, loadVars>>

InitHolder ==
    /\ \E init \in Maps :
         holders = [i \in Hids |-> IF i = 1 THEN ConfigHolder(init, "") ELSE NoHolder]
    /\ err = "none"
    /\ ret = 0
    /\ op = "init"
    /\ RepoUnused
    /\ LoadUnused

NextHolder ==
    \/ \E i \in Hids, k \in Keys, v \in Vals : Set(i, k, v)
    \/ \E i \in Hids, k \in Keys : Get(i, k)
    \/ \E i \in Hids, k \in Keys : Del(i, k)
    \/ \E i \in Hids : Lock(i)
    \/ \E i \in Hids : Unlock(i)
    \/ \E i \in Hids : Copy(i)

SpecHolder == InitHolder /\ [][NextHolder]_vars

(* ----------------------- properties of the holder ---------------------- *)

\* C1: a set on an unlocked holder is followed by get returning the value
\* set; on a locked holder a set of an absent key raises ConfigLockError and
\* leaves the entries as they were, and a set of a present key succeeds and
\* overwrites the value (the other entries are kept in every case).
SetRespectsLock ==
    [][op' = "set" => \A i \in Hids, k \in Keys, v \in Vals :
         Set(i, k, v) =>
           LET h == holders[i]
               absent == k \notin DOMAIN h.entries
           IN /\ (h.locked = 0 \/ ~absent) =>
                   /\ err' = "none"
                   /\ GetItem(holders'[i], k) = [val |-> v, err |-> "none"]
                   /\ \A j \in Keys \ {k} : GetItem(holders'[i], j) = GetItem(h, j)
              /\ (h.locked # 0 /\ absent) =>
                   /\ err' = "ConfigLockError"
                   /\ holders'[i].entries = h.entries
              /\ holders'[i].locked = h.locked
      ]_vars

\* a locked holder that holds a key and has just refused a new one
SetRefusedOnLocked ==
    /\ op = "set"
    /\ err = "ConfigLockError"
    /\ \E i \in Hids :
         /\ holders[i].used
         /\ holders[i].locked = 1
         /\ Cardinality(DOMAIN holders[i].entries) = 1

\* C7: copy() returns a new holder with the entries and the lock state of
\* the original, and leaves the original as it was; afterwards a set,
\* delete, lock or unlock on one holder changes no other holder, so none on
\* the copy changes the original and none on the original changes the copy.
CopyIsIndependent ==
    [][/\ op' = "copy" => \A i \in Hids :
            Copy(i) =>
              \E c \in Hids \ {i} :
                /\ ret' = c
                /\ ~holders[c].used
                /\ holders'[c].used
                /\ holders'[c].entries = holders[i].entries
                /\ holders'[c].locked = holders[i].locked
                /\ \A g \in Hids \ {c} : holders'[g] = holders[g]
       /\ op' \in {"set", "del", "lock", "unlock"} => \A i \in Hids :
            \/ \A g \in Hids \ {i} : holders'[g] = holders[g]
            \/ ~(\/ \E k \in Keys, v \in Vals : Set(i, k, v)
                 \/ \E k \in Keys : Del(i, k)
                 \/ Lock(i)
                 \/ Unlock(i))
      ]_vars

\* copy() has just returned the locked copy of a locked holder with content
CopyOfLockedMade ==
    /\ op = "copy"
    /\ ret \in Hids
    /\ holders[ret].used
    /\ holders[ret].locked = 1
    /\ DOMAIN holders[ret].entries = Keys
    /\ \E i \in Hids \ {ret} :
         /\ holders[i].used
         /\ holders[i].locked = 1
         /\ holders[i].entries = holders[ret].entries

(* ------------------------- blobs and read_blob ------------------------- *)

ScriptExts == {".py", ".conf"}
YamlExts == {".yaml", ".yml"}
JsonExts == {".json"}
\* the extensions of the files in the repository: one of each kind of reader,
\* and one that no reader takes
FileExts == {".py", ".yaml", ".json", ".txt"}

\* a statement of a configuration script: key = val at top level, or one
\* that raises when it is executed
Stmts ==
    {[kind |-> "assign", key |-> k, val |-> v] : k \in Keys, v \in Vals}
        \cup {[kind |-> "raise", key |-> "", val |-> 0]}

SeqsUpTo(S, n) == UNION {[1..m -> S] : m \in 0..n}

\* The content of a blob as its reader sees it. A script is its statements,
\* or does not compile (parses = FALSE); a YAML or JSON document is a
\* mapping (doc), something that is no mapping such as null (ismap = FALSE),
\* or is malformed (parses = FALSE).
BlobOf(e, p, st, im, d) ==
    [type |-> "blob", ext |-> e, parses |-> p, stmts |-> st, ismap |-> im, doc |-> d]

ScriptBlobs ==
    LET exts == FileExts \cap ScriptExts
    IN {BlobOf(e, TRUE, st, FALSE, EmptyMap) : e \in exts, st \in SeqsUpTo(Stmts, MaxStmts)}
           \cup {BlobOf(e, FALSE, <<>>, FALSE, EmptyMap) : e \in exts}
DataBlobs ==
    LET exts == FileExts \cap (YamlExts \cup JsonExts)
    IN {BlobOf(e, TRUE, <<>>, TRUE, d) : e \in exts, d \in Maps}
           \cup {BlobOf(e, TRUE, <<>>, FALSE, EmptyMap) : e \in exts}
           \cup {BlobOf(e, FALSE, <<>>, FALSE, EmptyMap) : e \in exts}
OtherBlobs ==
    {BlobOf(e, TRUE, <<>>, FALSE, EmptyMap) :
       e \in FileExts \ (ScriptExts \cup YamlExts \cup JsonExts)}
Blobs == ScriptBlobs \cup DataBlobs \cup OtherBlobs
\* a subdirectory met in a traversal
SubTree == [BlobOf("", TRUE, <<>>, FALSE, EmptyMap) EXCEPT !.type = "tree"]
Entries == Blobs \cup {SubTree}

\* blob_readable
BlobReadable(b) == b.ext \in {".py", ".conf", ".yaml", ".yml", ".json"}

\* exec(source, glbl, loc) with the holder as loc: each top-level assignment
\* goes through the holder's __setitem__, and the first statement that
\* raises ends the run with what was stored before it left in place
RECURSIVE Exec(_, _)
Exec(h, st) ==
    IF st = <<>> THEN [h |-> h, err |-> "none"]
    ELSE IF Head(st).kind = "raise" THEN [h |-> h, err |-> "Exception"]
    ELSE LET r == SetItem(h, Head(st).key, Head(st).val)
         IN IF r.err # "none" THEN r ELSE Exec(r.h, Tail(st))

\* dict.update on the holder: the entries are stored without __setitem__
UpdateHolder(h, d) == [h |-> [h EXCEPT !.entries = Update(@, d)], err |-> "none"]

\* read_blob that keeps the value a key already has
ReadBlobKeepsFirst(b, h) ==
    IF b.ext \in ScriptExts
    THEN IF ~b.parses THEN [h |-> h, err |-> "SyntaxError"] ELSE Exec(h, b.stmts)
    ELSE IF b.ext \in YamlExts \cup JsonExts
    THEN IF ~b.parses THEN [h |-> h, err |-> "ParseError"]
         ELSE IF ~b.ismap THEN [h |-> h, err |-> "TypeError"]
         ELSE [h |-> [h EXCEPT !.entries = Update(b.doc, @)], err |-> "none"]
    ELSE [h |-> h, err |-> "none"]

\* read_blob(blob, glbl, loc) with the holder h as loc
ReadBlob(b, h) ==
    IF b.ext \in ScriptExts
    THEN IF ~b.parses THEN [h |-> h, err |-> "SyntaxError"] ELSE Exec(h, b.stmts)
    ELSE IF b.ext \in YamlExts \cup JsonExts
    THEN IF ~b.parses THEN [h |-> h, err |-> "ParseError"]
         ELSE IF ~b.ismap THEN [h |-> h, err |-> "TypeError"]
         ELSE UpdateHolder(h, b.doc)
    ELSE [h |-> h, err |-> "none"]

\* mergeblob without the try/except: the reader's exception reaches the caller
MergeBlobRaising(b, h) ==
    LET r == ReadBlob(b, h)
    IN [h |-> r.h, err |-> r.err, warned |-> FALSE]

\* BlobConfig.mergeblob: whatever read_blob raises is caught and reported as
\* a warning, and the call returns
MergeBlob(b, h) ==
    LET r == ReadBlob(b, h)
    IN [h |-> r.h, err |-> "none", warned |-> r.err # "none"]

\* What reading b stores into an unlocked holder: the statements of a script
\* that run before its first raise (the last assignment to a key counts),
\* the mapping of a well-formed document, nothing otherwise.
Stored(b) ==
    IF b.ext \in ScriptExts /\ b.parses
    THEN LET stop == IF \E i \in DOMAIN b.stmts : b.stmts[i].kind = "raise"
                     THEN CHOOSE i \in DOMAIN b.stmts :
                            /\ b.stmts[i].kind = "raise"
                            /\ \A j \in 1..(i - 1) : b.stmts[j].kind # "raise"
                     ELSE Len(b.stmts) + 1
             at(k) == {i \in 1..(stop - 1) : b.stmts[i].key = k}
         IN [k \in {j \in Keys : at(j) # {}} |->
               b.stmts[CHOOSE i \in at(k) : \A j \in at(k) : j <= i].val]
    ELSE IF b.ext \in YamlExts \cup JsonExts /\ b.parses /\ b.ismap
    THEN b.doc
    ELSE EmptyMap

\* whether reading b fails: a script that does not compile or raises, a
\* document that is malformed or no mapping
Fails(b) ==
    \/ b.ext \in ScriptExts /\ (~b.parses \/ \E i \in DOMAIN b.stmts : b.stmts[i].kind = "raise")
    \/ b.ext \in YamlExts \cup JsonExts /\ (~b.parses \/ ~b.ismap)

(* ------------------------ BlobConfig.sync_config ----------------------- *)

\* BlobConfig(): an empty, unlocked holder named after its class
BlobConfigNew == [ConfigHolder(EmptyMap, "") EXCEPT !.name = "blobconfig"]

\* mergeblob(b) on the holder of the call, holders[1]; left says how many
\* entries of the traversal are still to come
MergeStep(b, left) ==
    LET r == MergeBlob(b, holders[1])
    IN /\ holders' = [holders EXCEPT ![1] = r.h]
       /\ warnings' = warnings + (IF r.warned THEN 1 ELSE 0)
       /\ log' = Append(log, [stores |-> Stored(b), failed |-> Fails(b)])
       /\ err' = r.err
       /\ call' = [call EXCEPT
                     !.todo = left,
                     !.pc = IF r.err # "none" THEN "raised"
                            ELSE IF left = 0 THEN "synced" ELSE "tree"]

\* sync_config: no item of the branch's tree has the requested path; the
\* loop ends and the call returns
SyncMissing ==
    /\ call.pc = "scan"
    /\ call' = [call EXCEPT !.target = "missing", !.pc = "synced"]
    /\ UNCHANGED <<holderVars, repoVars, err, ret, op, args, base, log, warnings>>

\* sync_config: the item with the requested path is the blob b, which is
\* handed to mergeblob whatever its extension
SyncBlob ==
    /\ call.pc = "scan"
    /\ \E b \in Blobs :
         LET r == MergeBlob(b, holders[1])
         IN /\ holders' = [holders EXCEPT ![1] = r.h]
            /\ warnings' = warnings + (IF r.warned THEN 1 ELSE 0)
            /\ log' = Append(log, [stores |-> Stored(b), failed |-> Fails(b)])
            /\ err' = r.err
            /\ call' = [call EXCEPT
                          !.target = "blob",
                          !.pc = IF r.err # "none" THEN "raised" ELSE "synced"]
    /\ UNCHANGED <<repoVars, ret, op, args, base>>

\* sync_config: the item with the requested path is a tree, whose traversal
\* has n entries, at most most; mergetree starts
SyncTree(most) ==
    /\ call.pc = "scan"
    /\ \E n \in 0..most : call' = [call EXCEPT !.target = "tree", !.todo = n,
                            !.pc = IF n = 0 THEN "synced" ELSE "tree"]
    /\ UNCHANGED <<holderVars, repoVars, err, ret, op, args, base, log, warnings>>

\* mergetree: the next entry e of the traversal; a readable blob is merged,
\* a subtree or any other blob is passed over
TreeEntry ==
    /\ call.pc = "tree"
    /\ call.todo > 0
    /\ \E e \in Entries :
         IF e.type = "blob" /\ BlobReadable(e)
         THEN MergeStep(e, call.todo - 1)
         ELSE /\ call' = [call EXCEPT !.todo = @ - 1,
                                      !.pc = IF call.todo = 1 THEN "synced" ELSE "tree"]
              /\ UNCHANGED <<holderVars, err, log, warnings>>
    /\ UNCHANGED <<repoVars, ret, op, args, base>>

\* sync_config is called on a BlobConfig with any entries, unlocked as
\* get_config leaves it, whose repository is set
InitMerge ==
    /\ \E m \in Maps :
         /\ holders = [i \in Hids |-> IF i = 1 THEN [BlobConfigNew EXCEPT !.entries = m]
                                      ELSE NoHolder]
         /\ base = m
    /\ err = "none"
    /\ ret = 0
    /\ op = "sync_config"
    /\ now = 0
    /\ fs = LocalRepos
    /\ repo = RepoObjectInit(<<"/", "h">>, 1, <<>>, LocalRepos, 0).repo
    /\ sync = [c \in {1} |-> Idle]
    /\ fetches = 0
    /\ fetchlog = <<>>
    /\ call = [NoCall EXCEPT !.fn = "sync_config", !.pc = "scan"]
    /\ args = NoArgs
    /\ log = <<>>
    /\ warnings = 0

NextMerge ==
    \/ SyncMissing
    \/ SyncBlob
    \/ SyncTree(MaxFiles)
    \/ TreeEntry

SpecMerge == InitMerge /\ [][NextMerge]_vars

(* --------------------- get_config and check_config --------------------- *)

\* the names Python finds on the class of a BlobConfig before __getattr__
\* is tried: the methods of BlobConfig, of ConfigHolder and of dict
ClassAttrs ==
    {"set_repo", "get_dynamic", "sync_config", "mergetree", "mergeblob",
     "lock", "unlock", "islocked", "copy", "add_section",
     "update", "get", "keys", "values", "items", "pop", "clear", "setdefault"}

\* attribute read on a holder: a name of the class is found there, any other
\* name goes to __getattr__, which is __getitem__
GetAttr(h, name) ==
    IF name \in ClassAttrs
    THEN [found |-> "method", err |-> "none"]
    ELSE [found |-> "entry", err |-> GetItem(h, name).err]

\* check_config(fname): what the call can end with, [err, ret]. The method
\* it calls on the new BlobConfig is looked up first; were it found, the
\* result would be False or bool(cf).
CheckConfigEnds ==
    LET cf == BlobConfigNew
        a == GetAttr(cf, "mergefile")
    IN IF a.err # "none" THEN {[err |-> a.err, ret |-> 0]}
       ELSE IF a.found # "method" THEN {[err |-> "TypeError", ret |-> 0]}
       ELSE {[err |-> "none", ret |-> 0],
             [err |-> "none", ret |-> IF DOMAIN cf.entries # {} THEN 1 ELSE 0]}

\* the values of the repo_path argument of get_config: a local repository
\* under the temporary root and a URL to clone
ArgPaths == {<<"/", "t", "/", "r">>, RemoteUrl}
\* the values of GITFIG_REPO_PATH, when it is set: a local repository
\* outside the temporary root
EnvPaths == {<<"/", "h">>}

\* get_config that falls back on a repository of its own when neither the
\* argument nor the environment names one
RepoPathOrDefault(rp, env) ==
    IF rp # NoPath THEN rp ELSE IF env # NoPath THEN env ELSE RemoteUrl

\* get_config: the repository path is the repo_path argument, or else the
\* value of GITFIG_REPO_PATH; NoPath when neither is there
RepoPathOf(rp, env) == IF rp # NoPath THEN rp ELSE env

\* the overrides applied the other way round
OverridesReversed(initdict, kwargs) == Update(Update(EmptyMap, kwargs), initdict)

\* get_config: cf.update(initdict), then cf.update(kwargs), on the new holder
WithOverrides(initdict, kwargs) == Update(Update(EmptyMap, initdict), kwargs)

\* get_config(fname, branch, repo_path, initdict, cleanup, **kwargs) up to the
\* traversal in sync_config. rp is the repo_path argument and env the value of
\* GITFIG_REPO_PATH (NoPath: not given, not set); branchOK says whether the
\* branch is among the remote references; d is the directory mkdtemp makes.
\* The cleanup argument is read only at the end of get_config: its value is
\* drawn, and noted in call.cleanup, by the step that ends the call.
GetConfig ==
    /\ call.pc = "start"
    /\ op' = "get_config"
    /\ ret' = 0
    /\ \E rp \in ArgPaths \cup {NoPath}, env \in EnvPaths \cup {NoPath},
          initdict \in Maps, kwargs \in Maps, cleanup \in BOOLEAN,
          branchOK \in BOOLEAN, d \in TmpDirs \ fs :
         /\ args' = [repo_path |-> rp, env |-> env,
                      initdict |-> initdict, kwargs |-> kwargs]
         /\ IF RepoPathOf(rp, env) = NoPath
            THEN /\ err' = "Exception"
                 /\ call' = [call EXCEPT !.fn = "get_config", !.pc = "raised",
                                         !.cleanup = cleanup]
                 /\ UNCHANGED <<holders, repo, fs, base>>
            ELSE LET p == RepoPathOf(rp, env)
                     cf == [BlobConfigNew EXCEPT !.entries = WithOverrides(initdict, kwargs)]
                     r == RepoObjectInit(p, 1, d, fs, now)
                 IN /\ holders' = [holders EXCEPT ![1] = cf]
                    /\ base' = cf.entries
                    /\ repo' = r.repo
                    /\ fs' = r.fs
                    /\ err' = IF r.err # "none" THEN r.err
                              ELSE IF ~branchOK THEN "KeyError" ELSE "none"
                    /\ call' = [call EXCEPT
                                  !.fn = "get_config",
                                  !.cleanup = (cleanup /\ (r.err # "none" \/ ~branchOK)),
                                  !.pc = IF r.err # "none" \/ ~branchOK
                                         THEN "raised" ELSE "scan"]
    /\ UNCHANGED <<now, sync, fetches, fetchlog, log, warnings>>

\* get_config after sync_config has returned: the optional cleanup, and the
\* holder is returned
GetConfigReturn ==
    /\ call.fn = "get_config"
    /\ call.pc = "synced"
    /\ \E cleanup \in BOOLEAN :
         LET c == IF cleanup THEN RepoCleanup(repo, fs)
                  ELSE [fs |-> fs, err |-> "none"]
         IN /\ fs' = c.fs
            /\ err' = c.err
            /\ call' = [call EXCEPT !.cleanup = cleanup,
                                    !.pc = IF c.err # "none" THEN "raised" ELSE "returned"]
            /\ ret' = IF c.err # "none" THEN 0 ELSE 1
    /\ UNCHANGED <<holderVars, op, now, repo, sync, fetches, fetchlog, args, base, log, warnings>>

\* check_config(fname)
CheckConfig ==
    /\ call.pc = "start"
    /\ op' = "check_config"
    /\ \E e \in CheckConfigEnds :
         /\ err' = e.err
         /\ ret' = e.ret
         /\ call' = [call EXCEPT !.fn = "check_config",
                                 !.pc = IF e.err # "none" THEN "raised" ELSE "returned"]
    /\ UNCHANGED <<holderVars, repoVars, args, base, log, warnings>>

Init ==
    /\ holders = [i \in Hids |-> NoHolder]
    /\ err = "none"
    /\ ret = 0
    /\ op = "init"
    /\ RepoUnused
    /\ call = [NoCall EXCEPT !.pc = "start"]
    /\ args = NoArgs
    /\ base = EmptyMap
    /\ log = <<>>
    /\ warnings = 0

Next ==
    \/ GetConfig
    \/ CheckConfig
    \/ SyncMissing
    \/ SyncBlob
    \/ SyncTree(MaxLoadFiles)
    \/ TreeEntry
    \/ GetConfigReturn

Spec == Init /\ [][Next]_vars

(* --------------------- Properties of the merge ------------------------- *)

\* the merged files of the log that store key k, by their place in the
\* traversal
Storing(k) == {i \in 1..Len(log) : k \in DOMAIN log[i].stores}
LastStoring(k) == CHOOSE i \in Storing(k) : \A j \in Storing(k) : j <= i
FailedReads == {i \in 1..Len(log) : log[i].failed}

\* C4: a directory merge never raises on account of a file: at every point
\* of the traversal no exception has reached the caller, there is exactly one
\* warning for each file whose read failed, the traversal runs to its end,
\* and the keys stored by every file that read without failure, before or
\* after a failing one, are in the holder with the value of that file or of
\* a later one.
TreeMergeNeverRaises ==
    (call.fn = "sync_config" /\ call.target = "tree") =>
        /\ call.pc # "raised"
        /\ err = "none"
        /\ warnings = Cardinality(FailedReads)
        /\ Len(log) + call.todo <= MaxFiles
        /\ call.pc = "synced" <=> call.todo = 0
        /\ \A i \in 1..Len(log) : \A k \in DOMAIN log[i].stores :
             ~log[i].failed =>
                /\ k \in DOMAIN holders[1].entries
                /\ \E j \in i..Len(log) :
                     /\ k \in DOMAIN log[j].stores
                     /\ holders[1].entries[k] = log[j].stores[k]

\* a directory of two readable files has been merged: the first failed to
\* read, the second, after it, stored a key that is in the holder
FailingFileThenGoodFile ==
    /\ call.fn = "sync_config"
    /\ call.target = "tree"
    /\ call.pc = "synced"
    /\ Len(log) = 2
    /\ log[1].failed
    /\ ~log[2].failed
    /\ warnings = 1
    /\ "x" \in DOMAIN log[2].stores
    /\ "x" \in DOMAIN holders[1].entries
    /\ holders[1].entries["x"] = log[2].stores["x"]

\* C9: in a directory merge later files overwrite earlier ones: at every
\* point of the traversal each key has the value stored by the last file read
\* so far that stores it, and a key stored by no file has what it had
\* before the merge (its value, or its absence).
LaterFileWins ==
    (call.fn = "sync_config" /\ call.target = "tree") =>
        \A k \in Keys :
            IF Storing(k) # {}
            THEN /\ k \in DOMAIN holders[1].entries
                 /\ holders[1].entries[k] = log[LastStoring(k)].stores[k]
            ELSE IF k \in DOMAIN base
            THEN /\ k \in DOMAIN holders[1].entries
                 /\ holders[1].entries[k] = base[k]
            ELSE k \notin DOMAIN holders[1].entries

\* a.yaml with x = 1, then b.json with x = 2, have been merged into a holder
\* that had y and not x: x is 2 and y is as before
YamlThenJsonMerged ==
    /\ call.fn = "sync_config"
    /\ call.target = "tree"
    /\ call.pc = "synced"
    /\ Len(log) = 2
    /\ ~log[1].failed
    /\ ~log[2].failed
    /\ log[1].stores = [k \in {"x"} |-> 1]
    /\ log[2].stores = [k \in {"x"} |-> 2]
    /\ DOMAIN base = {"y"}
    /\ holders[1].entries = [k \in {"x", "y"} |-> IF k = "x" THEN 2 ELSE base["y"]]

(* ------------------ Properties of get_config, check_config -------------- *)

\* a call has ended, by a return or by an exception
Ended == call.pc \in {"returned", "raised"}

\* C3: when the requested path is one file and reading it fails, get_config
\* ends with an exception and returns no holder.
SingleFileFailureRaises ==
    (/\ call.fn = "get_config"
     /\ call.target = "blob"
     /\ Len(log) = 1
     /\ log[1].failed
     /\ Ended)
        => (call.pc = "raised" /\ err # "none" /\ ret = 0)

\* C5: when no item of the branch's tree has the requested path, get_config
\* ends with an exception and returns no holder.
MissingPathRaises ==
    (/\ call.fn = "get_config"
     /\ call.target = "missing"
     /\ Ended)
        => (call.pc = "raised" /\ err # "none" /\ ret = 0)

\* C8: check_config ends with a return, never with an exception, and what it
\* returns is a boolean.
CheckConfigReturnsBool ==
    (call.fn = "check_config" /\ Ended)
        => (call.pc = "returned" /\ err = "none" /\ ret \in {0, 1})

\* C10: in the holder get_config returns, a key stored by a merged file has
\* the value of the last file that stores it, whatever the overrides said;
\* any other key has its value from kwargs if kwargs has it, else from
\* initdict if initdict has it, and is absent otherwise; and the holder is
\* unlocked.
OverridesThenFiles ==
    (call.fn = "get_config" /\ call.pc = "returned") =>
        /\ ret = 1
        /\ IsLocked(holders[1]) = 0
        /\ \A k \in Keys :
             IF Storing(k) # {}
             THEN /\ k \in DOMAIN holders[1].entries
                  /\ holders[1].entries[k] = log[LastStoring(k)].stores[k]
             ELSE IF k \in DOMAIN args.kwargs
             THEN /\ k \in DOMAIN holders[1].entries
                  /\ holders[1].entries[k] = args.kwargs[k]
             ELSE IF k \in DOMAIN args.initdict
             THEN /\ k \in DOMAIN holders[1].entries
                  /\ holders[1].entries[k] = args.initdict[k]
             ELSE k \notin DOMAIN holders[1].entries

\* get_config has returned a holder: x is 1 in initdict and 2 in kwargs and
\* stored by no file, so it is 2; y is 1 in both and stored as 2 by the merged
\* file, so it is 2
OverridesAndFileReturned ==
    /\ call.fn = "get_config"
    /\ call.pc = "returned"
    /\ args.initdict = [k \in {"x", "y"} |-> 1]
    /\ args.kwargs = [k \in {"x", "y"} |-> IF k = "x" THEN 2 ELSE 1]
    /\ Len(log) = 1
    /\ log[1].stores = [k \in {"y"} |-> 2]
    /\ holders[1].entries = [k \in {"x", "y"} |-> 2]
    /\ IsLocked(holders[1]) = 0

\* C11: get_config called without a repo_path while GITFIG_REPO_PATH is
\* unset ends with an exception, and no repository has been opened or cloned
\* and no temporary directory made by then.
NoSourceRaisesEarly ==
    (/\ call.fn = "get_config"
     /\ args.repo_path = NoPath
     /\ args.env = NoPath)
        => /\ call.pc = "raised"
           /\ err = "Exception"
           /\ ret = 0
           /\ repo = NoRepo
           /\ fs = LocalRepos
           /\ ~holders[1].used

\* get_config was called with neither source and has ended
NoSourceCallEnded ==
    /\ call.fn = "get_config"
    /\ op = "get_config"
    /\ args.repo_path = NoPath
    /\ args.env = NoPath
    /\ call.pc = "raised"
    /\ err = "Exception"
    /\ fs = LocalRepos

(* -------------------- More properties of the holder -------------------- *)

\* C12: a delete of a key the holder has removes that key, locked or not,
\* without ConfigLockError, and leaves every other entry, the lock flag and
\* the name as they were; when the holder is locked, a set of the deleted
\* key then raises ConfigLockError.
DeleteIgnoresLock ==
    [][op' = "del" =>
        \A i \in Hids, k \in Keys :
            (Del(i, k) /\ k \in DOMAIN holders[i].entries) =>
                /\ err' = "none"
                /\ DOMAIN holders'[i].entries = DOMAIN holders[i].entries \ {k}
                /\ \A j \in DOMAIN holders'[i].entries :
                     holders'[i].entries[j] = holders[i].entries[j]
                /\ holders'[i].locked = holders[i].locked
                /\ holders'[i].name = holders[i].name
                /\ \A l \in Hids \ {i} : holders'[l] = holders[l]
                /\ holders'[i].locked # 0 =>
                     \A v \in Vals :
                        SetItem(holders'[i], k, v) =
                            [h |-> holders'[i], err |-> "ConfigLockError"]
    ]_vars

\* x has been deleted from the only holder, which is locked and still has y
DeletedFromLocked ==
    /\ op = "del"
    /\ err = "none"
    /\ \A i \in Hids : holders[i].used <=> i = 1
    /\ holders[1].locked # 0
    /\ DOMAIN holders[1].entries = {"y"}

\* C13: lock() and unlock() change the lock flag of their holder and nothing
\* else: entries and name stay, every other holder stays, islocked() is
\* true after lock() and false after unlock() whatever it was before; and a
\* holder just constructed, from any initial mapping, is unlocked.
LockTouchesOnlyFlag ==
    /\ [](op = "init" => \A i \in Hids : holders[i].used => IsLocked(holders[i]) = 0)
    /\ \A m \in Maps : IsLocked(ConfigHolder(m, "")) = 0
    /\ [][op' \in {"lock", "unlock"} =>
            \A i \in Hids :
                /\ Lock(i) =>
                     /\ IsLocked(holders'[i]) # 0
                     /\ holders'[i].entries = holders[i].entries
                     /\ holders'[i].name = holders[i].name
                     /\ \A l \in Hids \ {i} : holders'[l] = holders[l]
                     /\ err' = "none"
                /\ Unlock(i) =>
                     /\ IsLocked(holders'[i]) = 0
                     /\ holders'[i].entries = holders[i].entries
                     /\ holders'[i].name = holders[i].name
                     /\ \A l \in Hids \ {i} : holders'[l] = holders[l]
                     /\ err' = "none"
      ]_vars

\* the first holder was locked, copied while locked, and has just been
\* unlocked with its two entries in place
LockedThenUnlocked ==
    /\ op = "unlock"
    /\ holders[1].used
    /\ IsLocked(holders[1]) = 0
    /\ DOMAIN holders[1].entries = {"x", "y"}
    /\ holders[2].used
    /\ IsLocked(holders[2]) # 0

(* ------------------------------ Sections ------------------------------- *)

\* the value a holder stores for the holder object with id i
Ref(i) == 10 + i

\* SECTION(name): an empty, unlocked holder with the given name
Section(name) ==
    [ConfigHolder(EmptyMap, name) EXCEPT !.name = IF name = "" THEN "section" ELSE name]

\* setattr(self, name, section) that skips the lock check
AddSectionNoLockCheck(h, name, c) == SetItemNoLockCheck(h, name, Ref(c))

\* add_section: setattr(self, name, SECTION(name)), which is __setitem__,
\* with c the id of the new SECTION object
AddSectionItem(h, name, c) == SetItem(h, name, Ref(c))

\* add_section(name) on holder i. The SECTION is constructed first; when the
\* store is refused it is dropped with the exception.
AddSection(i, name) ==
    /\ op' = "add_section"
    /\ holders[i].used
    /\ FreeIds # {}
    /\ LET c == CHOOSE j \in FreeIds : \A l \in FreeIds : j <= l
           r == AddSectionItem(holders[i], name, c)
       IN /\ err' = r.err
          /\ holders' = IF r.err # "none" THEN holders
                        ELSE [holders EXCEPT ![i] = r.h, ![c] = Section(name)]
    /\ ret' = 0
    /\ UNCHANGED <<repoVars, loadVars>>

\* the files handed to mergeblob directly: every document, and the scripts
\* of at most one statement
SingleBlobs == {b \in Blobs : Len(b.stmts) <= 1}

\* mergeblob(b), for some file b, on the BlobConfig, holder 1, in whatever
\* lock state it is; the warnings are counted up to MaxFiles
Merge ==
    /\ holders[1].used
    /\ op' = "mergeblob"
    /\ ret' = 0
    /\ \E b \in SingleBlobs :
         LET r == MergeBlob(b, holders[1])
         IN /\ r.warned => warnings < MaxFiles
            /\ holders' = [holders EXCEPT ![1] = r.h]
            /\ err' = r.err
            /\ warnings' = warnings + (IF r.warned THEN 1 ELSE 0)
    /\ UNCHANGED <<repoVars, call, args, base, log>>

\* a BlobConfig with any entries, unlocked, and no other holder
InitSection ==
    /\ \E init \in Maps :
         holders = [i \in Hids |-> IF i = 1 THEN [BlobConfigNew EXCEPT !.entries = init]
                                   ELSE NoHolder]
    /\ err = "none"
    /\ ret = 0
    /\ op = "init"
    /\ RepoUnused
    /\ LoadUnused

NextSection ==
    \/ \E i \in Hids, k \in Keys : AddSection(i, k)
    \/ \E i \in Hids, k \in Keys, v \in Vals : Set(i, k, v)
    \/ \E i \in Hids : Lock(i)
    \/ \E i \in Hids : Unlock(i)

SpecSection == InitSection /\ [][NextSection]_vars

\* the operations on one BlobConfig, holder 1, that can store into it
NextLocked ==
    \/ \E k \in Keys, v \in Vals : Set(1, k, v)
    \/ \E k \in Keys : AddSection(1, k)
    \/ Lock(1)
    \/ Unlock(1)
    \/ Merge

SpecLocked == InitSection /\ [][NextLocked]_vars

\* C14: add_section(name) goes through the lock check of its parent: on a
\* locked parent without the key it raises ConfigLockError and changes
\* nothing; otherwise the parent gets, under key name, a new holder that is
\* empty, unlocked and named name, and the parent's lock stays as it was.
\* The locks are independent: lock() and unlock() of one holder leave the
\* lock of every other holder, its sections included, as it was, and a set
\* of a new key in an unlocked holder succeeds whatever its parent's lock.
SectionLockIndependent ==
    /\ [][op' = "add_section" =>
            \A i \in Hids, k \in Keys :
                AddSection(i, k) =>
                    IF holders[i].locked # 0 /\ k \notin DOMAIN holders[i].entries
                    THEN err' = "ConfigLockError" /\ holders' = holders
                    ELSE /\ err' = "none"
                         /\ \E c \in FreeIds :
                              /\ holders'[i].entries = Put(holders[i].entries, k, Ref(c))
                              /\ holders'[c] = [used |-> TRUE, entries |-> EmptyMap,
                                                locked |-> 0, name |-> k]
                              /\ \A l \in Hids \ {i, c} : holders'[l] = holders[l]
                         /\ holders'[i].locked = holders[i].locked
                         /\ holders'[i].name = holders[i].name
      ]_vars
    /\ [][op' \in {"lock", "unlock"} =>
            \A i \in Hids :
                (Lock(i) \/ Unlock(i)) =>
                    \A l \in Hids \ {i} : holders'[l].locked = holders[l].locked
      ]_vars
    /\ [][op' = "set" =>
            \A i \in Hids, k \in Keys, v \in Vals :
                (Set(i, k, v) /\ holders[i].locked = 0) =>
                    /\ err' = "none"
                    /\ holders'[i].entries = Put(holders[i].entries, k, v)
      ]_vars

\* the parent is locked and has the section x; the section is unlocked and a
\* new key y has just been set in it
SetInSectionOfLockedParent ==
    /\ op = "set"
    /\ err = "none"
    /\ holders[1].locked # 0
    /\ "x" \in DOMAIN holders[1].entries
    /\ holders[1].entries["x"] = Ref(2)
    /\ holders[2] = [used |-> TRUE, entries |-> [k \in {"y"} |-> 1],
                     locked |-> 0, name |-> "x"]

(* ------------------- Two callers of sync() on one handle --------------- *)

\* the threads that call sync() on the shared handle
Callers == {1, 2}

\* a handle opened in place on a local repository with one remote, shared by
\* the callers, none of which is inside sync()
InitRace ==
    /\ holders = [i \in Hids |-> NoHolder]
    /\ err = "none"
    /\ ret = 0
    /\ op = "open"
    /\ now = 0
    /\ fs = LocalRepos
    /\ repo = RepoObjectInit(<<"/", "h">>, 1, <<>>, LocalRepos, 0).repo
    /\ sync = [c \in Callers |-> Idle]
    /\ fetches = 0
    /\ fetchlog = <<>>
    /\ LoadUnused

NextRace ==
    \/ \E d \in 1..Cooldown : Tick(d)
    \/ \E c \in DOMAIN sync : SyncCheck(c)
    \/ \E c \in DOMAIN sync : SyncFetch(c)
    \/ \E c \in DOMAIN sync : SyncDone(c)

SpecRace == InitRace /\ [][NextRace]_vars

\* C15: the gate of sync() is the timestamp comparison and nothing more: a
\* caller passes the check exactly when the cooldown has elapsed since the
\* last-fetch timestamp, whether or not another caller is fetching, and
\* passing writes nothing to the handle; the timestamp is written only when
\* a caller's fetches are over. (The state this allows, two rounds inside
\* one window, is RacingFetches.)
GateIsOnlyTimestamp ==
    [][/\ \A c \in Callers :
            SyncCheck(c) =>
                /\ (sync'[c].pc = "fetching") <=> (now >= repo.last_fetch + Cooldown)
                /\ repo' = repo
       /\ repo'.last_fetch # repo.last_fetch =>
            \E c \in Callers : sync[c].pc = "fetching" /\ sync'[c].pc = "idle"
      ]_vars

\* both callers have passed the check before either reset the timestamp:
\* both are fetching, in two rounds started less than the cooldown apart
RacingFetches ==
    /\ \A c \in Callers : sync[c].pc = "fetching"
    /\ Len(fetchlog) = 2
    /\ fetchlog[2] - fetchlog[1] < Cooldown
    /\ repo.last_fetch = 0
    /\ fetches = 2 * repo.remotes

\* C16: a holder that is locked before and after a step has gained no key in
\* that step, whatever the operation: set, add_section, or the merge of a
\* script, YAML or JSON file.
LockedKeysNeverGrow ==
    [][\A i \in Hids :
          (holders[i].used /\ holders[i].locked # 0 /\ holders'[i].locked # 0) =>
              DOMAIN holders'[i].entries \subseteq DOMAIN holders[i].entries
      ]_vars

\* C17: when get_config was called with cleanup set and cloned the
\* repository into a temporary directory, that directory is gone once the
\* call has ended, by a return or by an exception.
CleanupOnEveryExit ==
    (/\ call.fn = "get_config"
     /\ Ended
     /\ call.cleanup
     /\ repo.open
     /\ repo.cloned)
        => repo.dir \notin fs

\* C18: a file whose read fails leaves the holder as it was: in the step of
\* sync_config that reads a failing file, the entries do not change.
FailedFileLeavesNothing ==
    [][(/\ call.fn = "sync_config"
        /\ Len(log') = Len(log) + 1
        /\ log'[Len(log')].failed)
           => holders'[1].entries = holders[1].entries
      ]_vars

====
